---- MODULE Spec2Model ----
(***************************************************************************)
(* libentrylogger: the EntryLogger document (ELD) codec and row engine of  *)
(* src/src/entrylogger.c, over a byte-level model of the file system.      *)
(*                                                                         *)
(* One document handle (eld_handle_t) works on files that are sequences of *)
(* bytes.  Every library function is an operator from the handle, the disk *)
(* and the error buffer to their values after the call; the actions are    *)
(* the calls an embedder makes.  Structures are laid out as the LP64 build *)
(* of entrylogger.h lays them out (natural alignment, little endian), and  *)
(* stdio writes are taken as reaching the file when they are issued.       *)
(***************************************************************************)
EXTENDS Integers, Sequences, FiniteSets, TLC

VARIABLES doc, disk, row, el_error_msg_buf, last, appended, heap, steps

vars == <<doc, disk, row, el_error_msg_buf, last, appended, heap, steps>>

-----------------------------------------------------------------------------
(* Program constants.                                                      *)

EL_OK == 0
EL_ERROR_FILE == 1

EL_FIELD_INT == 0
EL_FIELD_FLOAT == 1
EL_FIELD_STRING == 2

EL_FIELD_NAME_LEN == 20

\* sizeof(long), sizeof(float), sizeof(char) of the LP64 build.
SizeofLong == 8
SizeofFloat == 4
SizeofChar == 1
\* sizeof the value union of el_cell_t (long / float / pointers).
SizeofValue == 8
\* sizeof(eld_header_t) and sizeof(el_field_def_t) with natural alignment.
SizeofHeader == 20
SizeofFieldDef == 26

NULL == "NULL"

-----------------------------------------------------------------------------
(* Bounds of the model.                                                    *)

\* add_field is called while fewer than MaxFields descriptors exist.
MaxFields == 2
\* add_row is called while the in-memory row_count is below MaxRows.
MaxRows == 2
\* The embedder makes at most MaxSteps calls.
MaxSteps == 8

\* The files the embedder names.
DocPath == "t.eld"
OtherPath == "u.eld"
Paths == {DocPath, OtherPath}

\* What uninitialised memory (malloc, padding, locals) may hold; one run
\* finds the same byte wherever it reads such memory.
UninitBytes == {0, 170}

\* The values an embedder stores in cells: long, float bit pattern, string.
IntInputs == {123}
FloatInputs == {1066192077}
StrInputs == {<<82>>}

\* The arguments of el_field_def_new the embedder uses: type, name, length.
FieldInputs ==
    { [type |-> EL_FIELD_INT, name |-> <<73>>, length |-> 1],
      [type |-> EL_FIELD_FLOAT, name |-> <<70>>, length |-> 1],
      [type |-> EL_FIELD_STRING, name |-> <<83>>, length |-> 1] }

-----------------------------------------------------------------------------
(* Bytes.                                                                  *)

Only(S) == CHOOSE x \in S : TRUE

Min(a, b) == IF a < b THEN a ELSE b
Max(a, b) == IF a > b THEN a ELSE b

Pow256(k) == IF k = 0 THEN 1 ELSE IF k = 1 THEN 256 ELSE IF k = 2 THEN 65536 ELSE 16777216

\* The n low bytes of v in memory order (little endian); v < 2^31.
LE(v, n) == [i \in 1..n |-> IF i <= 4 THEN (v \div Pow256(i - 1)) % 256 ELSE 0]

\* The unsigned value of the n <= 4 bytes of bs that start after offset o.
RECURSIVE FromLE(_, _, _)
FromLE(bs, o, n) ==
    IF n = 0 THEN 0 ELSE FromLE(bs, o, n - 1) + bs[o + n] * Pow256(n - 1)

Fill(n, b) == [i \in 1..n |-> b]

\* The first n bytes of bs; what lies beyond bs reads as g.
Take(bs, n, g) == Only({ [i \in 1..n |-> IF i <= Len(b) THEN b[i] ELSE g] : b \in {bs} })

\* Memory old after new was stored at its start.
Overlay(old, new) ==
    Only({ [i \in 1..Len(o) |-> IF i <= Len(n) THEN n[i] ELSE o[i]] : o \in {old}, n \in {new} })

RECURSIVE Flatten(_)
Flatten(ss) == IF ss = <<>> THEN <<>> ELSE Head(ss) \o Flatten(Tail(ss))

\* fread: the bytes of data a read of len bytes at offset pos obtains.
FRead(data, pos, len) ==
    IF pos >= Len(data) THEN <<>> ELSE SubSeq(data, pos + 1, Min(pos + len, Len(data)))

\* fwrite on a stream positioned at pos: overwrite, extending the file (a
\* gap left by a seek beyond the end reads as zeros).
FWrite(data, pos, bytes) ==
    Only({ IF b = <<>> THEN dt
           ELSE [i \in 1..Max(Len(dt), pos + Len(b)) |->
                    IF i > pos /\ i <= pos + Len(b) THEN b[i - pos]
                    ELSE IF i <= Len(dt) THEN dt[i] ELSE 0]
           : dt \in {data}, b \in {bytes} })

-----------------------------------------------------------------------------
(* The structures and their memory images.                                 *)

\* eld_header_t: magic[3] pad header_len row_len field_desc_len
\* field_desc_count pad pad row_count marker[2] pad pad.
HeaderBytes(h) ==
    h.magic \o <<h.pad[1]>> \o LE(h.header_len, 2) \o LE(h.row_len, 2)
        \o <<h.field_desc_len, h.field_desc_count, h.pad[2], h.pad[3]>>
        \o LE(h.row_count, 4) \o h.marker \o <<h.pad[4], h.pad[5]>>

HeaderFromBytes(bs) ==
    [ magic |-> SubSeq(bs, 1, 3),
      header_len |-> FromLE(bs, 4, 2),
      row_len |-> FromLE(bs, 6, 2),
      field_desc_len |-> bs[9],
      field_desc_count |-> bs[10],
      row_count |-> FromLE(bs, 12, 4),
      marker |-> SubSeq(bs, 17, 18),
      pad |-> <<bs[4], bs[11], bs[12], bs[19], bs[20]>> ]

\* el_field_def_t: type pad size_bytes name[EL_FIELD_NAME_LEN + 1] pad.
FieldDefBytes(f) ==
    <<f.type, f.pad[1]>> \o LE(f.size_bytes, 2) \o f.name \o <<f.pad[2]>>

FieldDefFromBytes(bs, o) ==
    [ type |-> bs[o + 1],
      size_bytes |-> FromLE(bs, o + 2, 2),
      name |-> SubSeq(bs, o + 5, o + 5 + EL_FIELD_NAME_LEN),
      pad |-> <<bs[o + 2], bs[o + SizeofFieldDef]>> ]

FieldDefsBytes(defs) == Flatten([i \in 1..Len(defs) |-> FieldDefBytes(defs[i])])

FieldDefsFromBytes(bs, count) ==
    Only({ [i \in 1..count |-> FieldDefFromBytes(b, (i - 1) * SizeofFieldDef)] : b \in {bs} })

ClosedFh == [open |-> FALSE, pos |-> 0, eof |-> FALSE]
OpenFh(p) == [open |-> TRUE, pos |-> p, eof |-> FALSE]

NoFile == [exists |-> FALSE, data |-> <<>>]
File(bytes) == [exists |-> TRUE, data |-> bytes]

\* from records how the embedder came by the row it holds.
NoRow == [valid |-> FALSE, index |-> 0, cell_count |-> 0, cells |-> <<>>, from |-> ""]

NoMsg == [set |-> FALSE, kind |-> "", a |-> 0, b |-> 0]
Msg(kind, a, b) == [set |-> TRUE, kind |-> kind, a |-> a, b |-> b]

\* What the call did to its stream, in order: fopen with a mode, fclose, the
\* fwrites of the header or of a row.
Opened(fmode) == [ev |-> "open", what |-> fmode]
Closed == [ev |-> "close", what |-> ""]
Wrote(what) == [ev |-> "write", what |-> what]

\* What a library call works on and hands back: the handle, the disk, the
\* error buffer, the row it is given or produces, and its status; log is
\* what it did to the stream, opens counts its fopen calls, and the fopen
\* numbered failAt is refused by the system (0: none is).
World(d, dk, err, r) ==
    [doc |-> d, disk |-> dk, err |-> err, row |-> r, ret |-> EL_OK,
     log |-> <<>>, opens |-> 0, failAt |-> 0]

\* IF_EL_ERROR(err) return err; otherwise go on with K.
Then(w0, K(_)) == Only({ IF w.ret > EL_OK THEN w ELSE K(w) : w \in {w0} })

\* return EL_ERROR_FILE after el_error_msg_set / el_error_msg_format.
Fail(w, msg) == [w EXCEPT !.err = msg, !.ret = EL_ERROR_FILE]

-----------------------------------------------------------------------------
(* el_doc_new, el_doc_fopen, el_doc_fclose.                                *)

\* A header_len that counts the descriptors only.
el_util_calc_header_len_table_only(d) ==
    [d EXCEPT !.header.header_len = (SizeofFieldDef * d.header.field_desc_count) % 65536]

\* el_util_calc_header_len: the 16-bit header_len.
el_util_calc_header_len(d) ==
    [d EXCEPT !.header.header_len =
        (SizeofFieldDef * d.header.field_desc_count + SizeofHeader) % 65536]

\* The 16-bit sum of size_bytes over descriptors lo..hi, taken by halves
\* (addition modulo 2^16 is associative, so this is the loop's sum).
RECURSIVE RowLenSum(_, _, _)
RowLenSum(defs, lo, hi) ==
    IF lo > hi THEN 0
    ELSE IF lo = hi THEN defs[lo].size_bytes % 65536
    ELSE (RowLenSum(defs, lo, (lo + hi) \div 2)
            + RowLenSum(defs, ((lo + hi) \div 2) + 1, hi)) % 65536

\* The loop of el_util_calc_row_len over the first i descriptors.
RowLenLoop(defs, i) == RowLenSum(defs, 1, i)

\* el_util_calc_row_len: the 16-bit row_len, summed over field_desc_count
\* descriptors; a NULL table also resets row_count.
el_util_calc_row_len(d0) ==
    Only({ IF d.field_defs = <<>>
           THEN [d EXCEPT !.header.row_len = 0, !.header.row_count = 0]
           ELSE [d EXCEPT !.header.row_len = RowLenLoop(d.field_defs, d.header.field_desc_count)]
           : d \in {d0} })

\* el_doc_new; pad is what malloc left in the header's padding bytes.
el_doc_new(pad) ==
    el_util_calc_row_len(el_util_calc_header_len(
        [ fname |-> NULL,
          fh |-> ClosedFh,
          fmode |-> "",
          header |-> [ magic |-> <<69, 76, 68>>,
                       header_len |-> 0,
                       row_len |-> 0,
                       field_desc_len |-> SizeofFieldDef,
                       field_desc_count |-> 0,
                       row_count |-> 0,
                       marker |-> <<45, 45>>,
                       pad |-> Fill(5, pad) ],
          field_defs |-> <<>> ]))

\* fopen(3): "rb" and "r+b" need the file, "wb" creates or empties it,
\* "a+b" creates it when missing; no name, no file.
FopenOk(dk, name, fmode) == name # NULL /\ (fmode \in {"rb", "r+b"} => dk[name].exists)

FopenDisk(dk, name, fmode) ==
    IF fmode = "wb" \/ (fmode = "a+b" /\ ~dk[name].exists)
    THEN [dk EXCEPT ![name] = File(<<>>)]
    ELSE dk

\* An open that does not look at the stream the handle already holds.
el_doc_fopen_reopen(w0, fname, fmode) ==
    Only({ IF FopenOk(w.disk, name, fmode)
           THEN [w EXCEPT !.doc.fname = name, !.doc.fmode = fmode,
                          !.doc.fh = OpenFh(0),
                          !.disk = FopenDisk(w.disk, name, fmode),
                          !.ret = EL_OK]
           ELSE Fail([w EXCEPT !.doc.fname = name, !.doc.fmode = fmode],
                     Msg("cannot_open", 0, 0))
           : w \in {w0}, name \in {IF fname # NULL THEN fname ELSE w0.doc.fname} })

\* el_doc_fopen.  fname = NULL reuses the stored name (which the caller
\* must have set).
el_doc_fopen(w0, fname, fmode) ==
    Only({ IF w.doc.fh.open
           THEN Fail(w, Msg("already_open", 0, 0))
           ELSE IF FopenOk(w.disk, name, fmode) /\ w.opens + 1 # w.failAt
                THEN [w EXCEPT !.doc.fname = name, !.doc.fmode = fmode,
                               !.doc.fh = OpenFh(0),
                               !.disk = FopenDisk(w.disk, name, fmode),
                               !.opens = @ + 1,
                               !.log = Append(@, Opened(fmode)),
                               !.ret = EL_OK]
                ELSE Fail([w EXCEPT !.doc.fname = name, !.doc.fmode = fmode,
                                    !.opens = @ + 1],
                          Msg("cannot_open", 0, 0))
           : w \in {w0}, name \in {IF fname # NULL THEN fname ELSE w0.doc.fname} })

\* A close that leaves the stream as it is.
el_doc_fclose_kept(w0) == [w0 EXCEPT !.ret = EL_OK]

\* el_doc_fclose.
el_doc_fclose(w0) ==
    Only({ [w EXCEPT !.doc.fh = IF w.doc.fh.open THEN ClosedFh ELSE @,
                     !.log = IF w.doc.fh.open THEN Append(@, Closed) ELSE @,
                     !.ret = EL_OK]
           : w \in {w0} })

-----------------------------------------------------------------------------
(* el_doc_read, el_doc_save, el_doc_field_add.                             *)

\* The first fread of el_doc_header_read: bytes the file does not supply
\* keep what the header held.
ReadHeader(w0) ==
    Only({ [w EXCEPT !.doc.header = HeaderFromBytes(Overlay(HeaderBytes(w.doc.header), got)),
                     !.doc.fh.pos = @ + Len(got),
                     !.doc.fh.eof = Len(got) < SizeofHeader]
           : w \in {w0},
             got \in {FRead(w0.disk[w0.doc.fname].data, w0.doc.fh.pos, SizeofHeader)} })

\* The realloc and the second fread: the table keeps what it held, new
\* memory holds g, and the bytes the file supplies are stored over both.
ReadFieldDefs(w0, g) ==
    Only({ [w EXCEPT !.doc.field_defs =
                        FieldDefsFromBytes(
                            Overlay(Take(FieldDefsBytes(w.doc.field_defs), want, g), got),
                            w.doc.header.field_desc_count),
                     !.doc.fh.pos = @ + Len(got),
                     !.doc.fh.eof = @ \/ Len(got) < want]
           : w \in {w0},
             want \in {SizeofFieldDef * w0.doc.header.field_desc_count},
             got \in {FRead(w0.disk[w0.doc.fname].data, w0.doc.fh.pos,
                            SizeofFieldDef * w0.doc.header.field_desc_count)} })

\* el_doc_header_read: neither fread is checked.
el_doc_header_read(w0, g) == [ReadFieldDefs(ReadHeader(w0), g) EXCEPT !.ret = EL_OK]

el_doc_read(w0, fname, g) ==
    Then(el_doc_fopen(w0, fname, "rb"), LAMBDA o :
    Then(el_doc_header_read(o, g), LAMBDA h :
    el_doc_fclose(h)))

\* A save that writes the header and forgets the descriptor table.
SaveWrite_header_only(w0) ==
    Only({ [w EXCEPT !.disk[w.doc.fname].data = FWrite(@, w.doc.fh.pos, bytes),
                     !.doc.fh.pos = @ + Len(bytes)]
           : w \in {w0}, bytes \in {HeaderBytes(w0.doc.header)} })

\* The two fwrites of el_doc_save on the opened stream.
SaveWrite(w0) ==
    Only({ [w EXCEPT !.disk[w.doc.fname].data = FWrite(@, w.doc.fh.pos, bytes),
                     !.doc.fh.pos = @ + Len(bytes),
                     !.log = Append(@, Wrote("header"))]
           : w \in {w0},
             bytes \in {HeaderBytes(w0.doc.header)
                          \o FieldDefsBytes(SubSeq(w0.doc.field_defs, 1,
                                                   w0.doc.header.field_desc_count))} })

\* A save that always creates the file anew.
SaveOpen_create(w0, fname) == el_doc_fopen(w0, fname, "wb")

\* The opening of el_doc_save: "r+b", and "wb" when that failed.
SaveOpen(w0, fname) ==
    Only({ IF o.ret > EL_OK THEN el_doc_fopen(o, fname, "wb") ELSE o
           : o \in {el_doc_fopen(w0, fname, "r+b")} })

el_doc_save(w0, fname) ==
    Then(SaveOpen(w0, fname), LAMBDA o :
    el_doc_fclose(SaveWrite(o)))

\* el_doc_field_add.  With 255 descriptors the 8-bit count wraps to 0: the
\* realloc to 0 bytes releases the table and the descriptor is stored in
\* front of it, outside any object; the handle is left with no table.
el_doc_field_add(d, field) ==
    el_util_calc_row_len(el_util_calc_header_len(
        [d EXCEPT !.header.field_desc_count = (@ + 1) % 256,
                  !.field_defs = IF (d.header.field_desc_count + 1) % 256 = 0
                                 THEN <<>>
                                 ELSE Append(@, field)]))

\* el_util_sizeof.
el_util_sizeof(type) ==
    CASE type = EL_FIELD_INT -> SizeofLong
      [] type = EL_FIELD_FLOAT -> SizeofFloat
      [] type = EL_FIELD_STRING -> SizeofChar
      [] OTHER -> 0

\* el_field_def_new; pad is what the local's padding bytes held.
el_field_def_new(type, name, length, pad) ==
    [ type |-> type % 256,
      size_bytes |-> IF type % 256 = EL_FIELD_STRING
                     THEN (((el_util_sizeof(type) * length) % 65536) + el_util_sizeof(type)) % 65536
                     ELSE (el_util_sizeof(type) * length) % 65536,
      name |-> Take(SubSeq(name, 1, Min(Len(name), EL_FIELD_NAME_LEN)),
                    EL_FIELD_NAME_LEN + 1, 0),
      pad |-> <<pad, pad>> ]

-----------------------------------------------------------------------------
(* Rows: el_row_new, el_row_seek, el_doc_row_write, el_doc_row_add,        *)
(* el_doc_row_update, el_row_read, el_row_get.                             *)
(*                                                                         *)
(* A row is its index, its cell_count and one byte image per cell: the     *)
(* value union of an INT or FLOAT cell, the allocated buffer of a STRING   *)
(* cell.  Cell k borrows descriptor k of the handle (cell->field).         *)

\* el_row_new; g is what malloc left in the cells.
el_row_new(d, g) ==
    [ valid |-> TRUE,
      index |-> d.header.row_count,
      cell_count |-> d.header.field_desc_count,
      cells |-> [k \in 1..d.header.field_desc_count |->
                    IF d.field_defs[k].type = EL_FIELD_STRING
                    THEN Fill(d.field_defs[k].size_bytes, 0)
                    ELSE Fill(SizeofValue, g)],
      from |-> "new" ]

\* A seek that forgets the header in front of the rows.
RowOffset_headerless(header, index) == header.row_len * index

\* The offset el_row_seek computes: a 16-bit times 32-bit product and a sum
\* in unsigned 32-bit arithmetic (it stays below 2^31 in this model).
RowOffset(header, index) == header.header_len + (header.row_len * index)

\* Numbers of 2^31 and above are written as sequences of 16-bit limbs, the
\* lowest first.  Mul16 is the product of two 16-bit numbers in
\* two limbs, taken byte by byte of b.
Mul16(a, b) ==
    Only({ <<lo % 65536, (pl \div 65536) + (ph \div 256) + (lo \div 65536)>>
           : pl \in {a * (b % 256)},
             ph \in {a * (b \div 256)},
             lo \in {((a * (b % 256)) % 65536) + (((a * (b \div 256)) % 256) * 256)} })

\* header_len + row_len * index as the integer it is, in three limbs; index
\* is a 32-bit number in two limbs.
ExactOffset(header_len, row_len, index) ==
    Only({ <<l0 % 65536, l1 % 65536, m2[2] + (l1 \div 65536)>>
           : m1 \in {Mul16(row_len, index[1])},
             m2 \in {Mul16(row_len, index[2])},
             l0 \in {Mul16(row_len, index[1])[1] + header_len},
             l1 \in {Mul16(row_len, index[1])[2] + Mul16(row_len, index[2])[1]
                        + ((Mul16(row_len, index[1])[1] + header_len) \div 65536)} })

\* The long offset el_row_seek hands to fseek: the uint16_t row_len is
\* promoted and multiplied by the uint32_t index in unsigned 32-bit
\* arithmetic, header_len is added in the same arithmetic, and the 32-bit
\* result is widened to the 64-bit long.
SeekOffset(header_len, row_len, index) ==
    Only({ <<sum % 65536, (prod[2] + (sum \div 65536)) % 65536, 0>>
           : prod \in {<<Mul16(row_len, index[1])[1],
                         (Mul16(row_len, index[1])[2] + Mul16(row_len, index[2])[1]) % 65536>>},
             sum \in {Mul16(row_len, index[1])[1] + header_len} })

\* el_row_seek: fseek from the start, which clears the end-of-file flag.
el_row_seek(w, index) == [w EXCEPT !.doc.fh = OpenFh(RowOffset(w.doc.header, index))]

\* The bytes one fwrite of el_doc_row_write takes from a cell.
CellOut(field, cell) ==
    IF field.type \in {EL_FIELD_INT, EL_FIELD_FLOAT, EL_FIELD_STRING}
    THEN SubSeq(cell, 1, field.size_bytes)
    ELSE <<>>

RowBytes(defs, r) == Flatten([k \in 1..r.cell_count |-> CellOut(defs[k], r.cells[k])])

\* A stream that writes at the end in every mode.
WritePos_append(d, data) == Len(data)

\* Where the stream writes: a stream opened "a+b" writes at the end.
WritePos(d, data) == IF d.fmode = "a+b" THEN Len(data) ELSE d.fh.pos

\* el_doc_row_write: the cells in order.
el_doc_row_write(w0) ==
    Only({ [w EXCEPT !.disk[w.doc.fname].data = FWrite(@, at, bytes),
                     !.doc.fh.pos = at + Len(bytes),
                     !.log = Append(@, Wrote("row")),
                     !.ret = EL_OK]
           : w \in {w0},
             at \in {WritePos(w0.doc, w0.disk[w0.doc.fname].data)},
             bytes \in {RowBytes(w0.doc.field_defs, w0.row)} })

\* An append that writes the row first and saves the header after it.
el_doc_row_add_row_first(w0) ==
    Then(el_doc_fopen([w0 EXCEPT !.row.index = w0.doc.header.row_count,
                                 !.doc.header.row_count = @ + 1], NULL, "a+b"), LAMBDA o :
    Then(el_doc_row_write(o), LAMBDA w :
    Then(el_doc_fclose(w), LAMBDA c :
    el_doc_save(c, NULL))))

\* el_doc_row_add.
el_doc_row_add(w0) ==
    Then(el_doc_save([w0 EXCEPT !.row.index = w0.doc.header.row_count,
                                !.doc.header.row_count = @ + 1], NULL), LAMBDA s :
    Then(el_doc_fopen(s, NULL, "a+b"), LAMBDA o :
    Then(el_doc_row_write(o), LAMBDA w :
    el_doc_fclose(w))))

\* el_doc_row_update.
el_doc_row_update(w0) ==
    Then(el_doc_fopen(w0, NULL, "r+b"), LAMBDA o :
    Then(el_doc_row_write(el_row_seek(o, o.row.index)), LAMBDA w :
    el_doc_fclose(w)))

\* The cell loop of el_row_read from cell k on: the fread into cell k, the
\* feof test after it, and the rest of the loop.
RECURSIVE ReadCells(_, _)
ReadCells(w0, k) ==
    IF k > w0.row.cell_count THEN w0
    ELSE Only({ IF Len(got) < len
                THEN Fail([w EXCEPT !.row.cells[k] = Overlay(@, got),
                                    !.doc.fh.pos = @ + Len(got),
                                    !.doc.fh.eof = TRUE],
                          Msg("eof_cell_row", k - 1, w.row.index))
                ELSE ReadCells([w EXCEPT !.row.cells[k] = Overlay(@, got),
                                         !.doc.fh.pos = @ + Len(got)], k + 1)
                : w \in {w0},
                  len \in {IF w0.doc.field_defs[k].type
                                \in {EL_FIELD_INT, EL_FIELD_FLOAT, EL_FIELD_STRING}
                           THEN w0.doc.field_defs[k].size_bytes ELSE 0},
                  got \in {FRead(w0.disk[w0.doc.fname].data, w0.doc.fh.pos,
                                 IF w0.doc.field_defs[k].type
                                      \in {EL_FIELD_INT, EL_FIELD_FLOAT, EL_FIELD_STRING}
                                 THEN w0.doc.field_defs[k].size_bytes ELSE 0)} })

\* el_row_read of row w0.row.  A short read returns with the stream open.
el_row_read(w0, index) ==
    Then(el_doc_fopen(w0, NULL, "rb"), LAMBDA o :
    Then(ReadCells(el_row_seek(o, index), 1), LAMBDA r :
    el_doc_fclose(r)))

\* The el_row_free and return NULL of el_row_get when el_row_read failed.
RowOrNull(w0) == Only({ IF w.ret > EL_OK THEN [w EXCEPT !.row = NoRow] ELSE w : w \in {w0} })

\* A bounds test that lets index = row_count through.
el_row_get_inclusive(w0, index, g) ==
    IF index > w0.doc.header.row_count
    THEN Fail([w0 EXCEPT !.row = NoRow],
              Msg("index_out_of_range", index, w0.doc.header.row_count))
    ELSE RowOrNull(el_row_read([w0 EXCEPT !.row = [el_row_new(w0.doc, g)
                                                      EXCEPT !.index = index, !.from = "get"]],
                               index))

\* el_row_get: NULL (NoRow) when the index is out of range or the read fails.
el_row_get(w0, index, g) ==
    IF index >= w0.doc.header.row_count
    THEN Fail([w0 EXCEPT !.row = NoRow],
              Msg("index_out_of_range", index, w0.doc.header.row_count))
    ELSE RowOrNull(el_row_read([w0 EXCEPT !.row = [el_row_new(w0.doc, g)
                                                      EXCEPT !.index = index, !.from = "get"]],
                               index))

-----------------------------------------------------------------------------
(* The embedder: one handle, the row it holds, and the calls it makes.     *)

\* The typed value of a cell: the long, the float's bits, the string up to
\* its first NUL.
RECURSIVE UpToNul(_)
UpToNul(bs) == IF bs = <<>> \/ Head(bs) = 0 THEN <<>> ELSE <<Head(bs)>> \o UpToNul(Tail(bs))

CellValue(field, cell) ==
    CASE field.type = EL_FIELD_INT -> SubSeq(cell, 1, SizeofLong)
      [] field.type = EL_FIELD_FLOAT -> SubSeq(cell, 1, SizeofFloat)
      [] field.type = EL_FIELD_STRING -> UpToNul(cell)
      [] OTHER -> <<>>

RowValues(d, r) == [k \in 1..r.cell_count |-> CellValue(d.field_defs[k], r.cells[k])]

\* The embedder declares INT and FLOAT fields with length 1 (the value
\* union holds them): rows are built only over such tables.
NumericFits(d) ==
    \A k \in 1..Len(d.field_defs) :
        d.field_defs[k].type \in {EL_FIELD_INT, EL_FIELD_FLOAT}
            => d.field_defs[k].size_bytes <= SizeofValue

Called(op, ret, idx) == [op |-> op, ret |-> ret, idx |-> idx]

\* History: the typed values of the rows add_row appended, while every
\* add_row returned OK and nothing but add_row touched the row region or
\* the schema after the first row.
Untouched == [ok |-> TRUE, rows |-> <<>>]
Touched == [ok |-> FALSE, rows |-> <<>>]

Init ==
    /\ heap \in UninitBytes
    /\ doc = el_doc_new(heap)
    /\ disk = [p \in Paths |-> NoFile]
    /\ row = NoRow
    /\ el_error_msg_buf = NoMsg
    /\ last = Called("doc_new", EL_OK, 0)
    /\ appended = Untouched
    /\ steps = 0

Here == World(doc, disk, el_error_msg_buf, row)

Apply(res, op, idx) ==
    /\ doc' = res.doc
    /\ disk' = res.disk
    /\ el_error_msg_buf' = res.err
    /\ last' = Called(op, res.ret, idx)
    /\ heap' = heap

\* add_field(el_field_def_new(...)); the embedder frees its row before the
\* descriptor table it points into is reallocated.
FieldAdd ==
    /\ doc.header.field_desc_count < MaxFields
    /\ \E f \in FieldInputs :
          doc' = el_doc_field_add(doc, el_field_def_new(f.type, f.name, f.length, heap))
    /\ row' = NoRow
    /\ last' = Called("field_add", EL_OK, 0)
    /\ appended' = IF appended.rows = <<>> THEN appended ELSE Touched
    /\ UNCHANGED <<disk, el_error_msg_buf, heap>>

\* save_document(fname), fname NULL once a name is stored.
DocSave(fname) ==
    /\ fname # NULL \/ doc.fname # NULL
    /\ \E res \in {el_doc_save(Here, fname)} : Apply(res, "doc_save", 0)
    /\ UNCHANGED <<row, appended>>

\* read_document(fname); the embedder frees its row first, as for add_field.
DocRead(fname) ==
    /\ \E res \in {el_doc_read(Here, fname, heap)} : Apply(res, "doc_read", 0)
    /\ row' = NoRow
    /\ appended' = IF fname = doc.fname \/ ~disk[fname].exists THEN appended ELSE Touched

\* new_row.
RowNew ==
    /\ NumericFits(doc)
    /\ row' = el_row_new(doc, heap)
    /\ last' = Called("row_new", EL_OK, 0)
    /\ UNCHANGED <<doc, disk, el_error_msg_buf, appended, heap>>

\* The embedder assigns cell k: value.integer, value.number, or a string
\* printed into the buffer with its terminator.
RowSet ==
    /\ row.valid
    /\ \E k \in 1..row.cell_count :
          \/ /\ doc.field_defs[k].type = EL_FIELD_INT
             /\ \E v \in IntInputs :
                   row' = [row EXCEPT !.cells[k] = LE(v, SizeofLong), !.from = "set"]
          \/ /\ doc.field_defs[k].type = EL_FIELD_FLOAT
             /\ \E v \in FloatInputs :
                   row' = [row EXCEPT !.cells[k] = Overlay(@, LE(v, SizeofFloat)),
                                      !.from = "set"]
          \/ /\ doc.field_defs[k].type = EL_FIELD_STRING
             /\ \E v \in StrInputs :
                   /\ Len(v) < Len(row.cells[k])
                   /\ row' = [row EXCEPT !.cells[k] = Overlay(@, v \o <<0>>),
                                         !.from = "set"]
    /\ last' = Called("row_set", EL_OK, 0)
    /\ UNCHANGED <<doc, disk, el_error_msg_buf, appended, heap>>

\* add_row(row).
RowAdd ==
    /\ row.valid
    /\ doc.fname # NULL
    /\ doc.header.row_count < MaxRows
    /\ \E res \in {el_doc_row_add(Here)} :
          /\ Apply(res, "row_add", res.row.index)
          /\ row' = [res.row EXCEPT !.from = "add"]
          /\ appended' = IF appended.ok /\ res.ret = EL_OK
                         THEN [appended EXCEPT !.rows = Append(@, RowValues(doc, row))]
                         ELSE Touched

\* update_row(row).
RowUpdate ==
    /\ row.valid
    /\ doc.fname # NULL
    /\ \E res \in {el_doc_row_update(Here)} : Apply(res, "row_update", row.index)
    /\ appended' = Touched
    /\ UNCHANGED row

\* row = get_row(index).
RowGet ==
    /\ NumericFits(doc)
    /\ \E index \in 0..MaxRows :
          /\ doc.fname # NULL \/ index >= doc.header.row_count
          /\ \E res \in {el_row_get(Here, index, heap)} :
                Apply(res, "row_get", index) /\ row' = res.row
    /\ UNCHANGED appended

\* open_file(fname, fmode) and close_file, called by the embedder itself;
\* last.idx is 1 when the name passed is not the stored one.
DocFopen(fname, fmode) ==
    /\ fname # NULL \/ doc.fname # NULL
    /\ \E res \in {el_doc_fopen(Here, fname, fmode)} :
          Apply(res, "doc_fopen", IF fname = doc.fname THEN 0 ELSE 1)
    /\ appended' = Touched
    /\ UNCHANGED row

DocFclose ==
    /\ \E res \in {el_doc_fclose(Here)} : Apply(res, "doc_fclose", 0)
    /\ UNCHANGED <<row, appended>>

\* Someone truncates the document's file inside its row region.
Truncate ==
    /\ doc.fname # NULL
    /\ \E n \in doc.header.header_len..(Len(disk[doc.fname].data) - 1) :
          disk' = [disk EXCEPT ![doc.fname].data = SubSeq(@, 1, n)]
    /\ last' = Called("truncate", EL_OK, 0)
    /\ appended' = Touched
    /\ UNCHANGED <<doc, row, el_error_msg_buf, heap>>

\* The arguments an embedder may pass to el_field_def_new: any type, a name
\* of any length, any declared length of the 16-bit argument.
DeclaredLengths == {1, 8192, 40000, 65535}
NameLengths == {1, 19, 20, 25}
NameOf(n) == [i \in 1..n |-> 64 + i]

CalledField(type, name, length) ==
    [op |-> "field_add", ret |-> EL_OK, idx |-> length, type |-> type, name |-> name]

\* add_field(el_field_def_new(type, name, length)) on a handle without rows.
FieldAddAny ==
    /\ doc.header.field_desc_count < MaxFields
    /\ \E type \in {EL_FIELD_INT, EL_FIELD_FLOAT, EL_FIELD_STRING},
          n \in NameLengths, length \in DeclaredLengths :
          /\ doc' = el_doc_field_add(doc, el_field_def_new(type, NameOf(n), length, heap))
          /\ last' = CalledField(type, NameOf(n), length)
    /\ row' = NoRow
    /\ UNCHANGED <<disk, el_error_msg_buf, appended, heap>>

Tick == steps < MaxSteps /\ steps' = steps + 1

Next ==
    \/ Tick /\ FieldAdd
    \/ Tick /\ DocSave(DocPath)
    \/ Tick /\ DocSave(NULL)
    \/ Tick /\ DocRead(DocPath)
    \/ Tick /\ RowNew
    \/ Tick /\ RowSet
    \/ Tick /\ RowAdd
    \/ Tick /\ RowUpdate
    \/ Tick /\ RowGet

Spec == Init /\ [][Next]_vars

\* The embedder opens and closes files itself, between library calls.
NextOpen ==
    \/ Tick /\ FieldAdd
    \/ Tick /\ DocSave(DocPath)
    \/ Tick /\ DocRead(DocPath)
    \/ Tick /\ RowNew
    \/ Tick /\ RowAdd
    \/ Tick /\ \E fname \in Paths \cup {NULL}, fmode \in {"rb", "r+b", "wb", "a+b"} :
                  DocFopen(fname, fmode)
    \/ Tick /\ DocFclose

SpecOpen == Init /\ [][NextOpen]_vars

\* A new handle on which only add_field is called, with any arguments.
NextSchema == Tick /\ FieldAddAny

SpecSchema == Init /\ [][NextSchema]_vars

\* The byte an embedder fills a buffer with when it writes no terminator.
FillByte == 88

\* The embedder fills the whole buffer of STRING cell k and leaves no
\* terminator in it (a memcpy or strncpy of size_bytes bytes).
RowFill ==
    /\ row.valid
    /\ \E k \in 1..row.cell_count :
          /\ doc.field_defs[k].type = EL_FIELD_STRING
          /\ row' = [row EXCEPT !.cells[k] = Fill(Len(@), FillByte), !.from = "set"]
    /\ last' = Called("row_fill", EL_OK, 0)
    /\ UNCHANGED <<doc, disk, el_error_msg_buf, appended, heap>>

\* The embedder also writes STRING cells without a terminator.
NextRaw ==
    \/ Next
    \/ Tick /\ RowFill

SpecRaw == Init /\ [][NextRaw]_vars

\* Which fopen of a call the system may refuse: el_doc_row_add makes at most
\* three (the "r+b" and "wb" of el_doc_save, then "a+b").
FailPoints == 1..3

\* add_row(row) during which the system refuses one fopen.
RowAddFault ==
    /\ row.valid
    /\ doc.fname # NULL
    /\ doc.header.row_count < MaxRows
    /\ \E k \in FailPoints :
          \E res \in {el_doc_row_add([Here EXCEPT !.failAt = k])} :
             /\ Apply(res, "row_add", res.row.index)
             /\ row' = [res.row EXCEPT !.from = "add"]
    /\ appended' = Touched

\* fopen may fail for reasons of the system's own.
NextFault ==
    \/ Tick /\ FieldAdd
    \/ Tick /\ DocSave(DocPath)
    \/ Tick /\ DocRead(DocPath)
    \/ Tick /\ RowNew
    \/ Tick /\ RowAdd
    \/ Tick /\ RowUpdate
    \/ Tick /\ RowGet
    \/ Tick /\ RowAddFault

SpecFault == Init /\ [][NextFault]_vars

\* Which fopen of el_doc_save the system may refuse: the "r+b" or the "wb".
SaveFailPoints == 1..2

\* save_document(fname) during which the system refuses one fopen (a file
\* that may be written and not read refuses "r+b" and grants "wb").
DocSaveFault(fname) ==
    /\ fname # NULL \/ doc.fname # NULL
    /\ \E k \in SaveFailPoints :
          \E res \in {el_doc_save([Here EXCEPT !.failAt = k], fname)} :
             Apply(res, "doc_save", k)
    /\ appended' = Touched
    /\ UNCHANGED row

NextSaveFault ==
    \/ Tick /\ FieldAdd
    \/ Tick /\ DocSave(DocPath)
    \/ Tick /\ DocRead(DocPath)
    \/ Tick /\ RowNew
    \/ Tick /\ RowSet
    \/ Tick /\ RowAdd
    \/ Tick /\ RowGet
    \/ Tick /\ DocSaveFault(DocPath)

SpecSaveFault == Init /\ [][NextSaveFault]_vars

\* The headers and indexes el_row_seek may meet: any 16-bit header_len and
\* row_len, any index below a row_count of 2^32 - 1 (indexes in two limbs:
\* 0, 1, 65535, 65536, 70000, 2^32 - 2).
SeekHeaderLens == {20, 46, 72, 65535}
SeekRowLens == {0, 1, 8, 10, 40000, 65535}
SeekIndexes == {<<0, 0>>, <<1, 0>>, <<65535, 0>>, <<0, 1>>, <<4464, 1>>, <<65534, 65535>>}

CalledSeek(header_len, row_len, index) ==
    [op |-> "row_seek", ret |-> EL_OK, idx |-> 0,
     header_len |-> header_len, row_len |-> row_len, index |-> index,
     offset |-> SeekOffset(header_len, row_len, index)]

\* el_row_seek(doc, index) on a handle whose header holds header_len and
\* row_len.
RowSeekAny ==
    /\ \E header_len \in SeekHeaderLens, row_len \in SeekRowLens, index \in SeekIndexes :
          last' = CalledSeek(header_len, row_len, index)
    /\ UNCHANGED <<doc, disk, row, el_error_msg_buf, appended, heap>>

NextSeek == Tick /\ RowSeekAny

SpecSeek == Init /\ [][NextSeek]_vars

\* The handle after n calls of add_field on a new handle.
DocWith(n, g) ==
    el_util_calc_row_len(el_util_calc_header_len(
        [el_doc_new(g) EXCEPT
            !.header.field_desc_count = n,
            !.field_defs = [i \in 1..n |-> el_field_def_new(EL_FIELD_INT, <<73>>, 1, g)]]))

\* The numbers of descriptors add_field is called with, up to the most the
\* 8-bit field_desc_count holds, and the calls made from there.
FullCounts == {0, 1, 127, 253, 254, 255}
FullSteps == 3

InitFull ==
    /\ heap \in UninitBytes
    /\ \E n \in FullCounts : doc = DocWith(n, heap)
    /\ disk = [p \in Paths |-> NoFile]
    /\ row = NoRow
    /\ el_error_msg_buf = NoMsg
    /\ last = Called("doc_new", EL_OK, 0)
    /\ appended = Untouched
    /\ steps = 0

\* add_field(el_field_def_new(...)) on a handle without rows, however many
\* descriptors it holds.
FieldAddFull ==
    /\ steps < FullSteps
    /\ \E f \in FieldInputs :
          /\ doc' = el_doc_field_add(doc, el_field_def_new(f.type, f.name, f.length, heap))
          /\ last' = CalledField(f.type, f.name, f.length)
    /\ row' = NoRow
    /\ UNCHANGED <<disk, el_error_msg_buf, appended, heap>>

NextFull == Tick /\ FieldAddFull

SpecFull == InitFull /\ [][NextFull]_vars

\* The file is truncated behind the library's back.
NextTrunc ==
    \/ Next
    \/ Tick /\ Truncate

SpecTrunc == Init /\ [][NextTrunc]_vars

\* A file that is no ELD document lies beside the document.
ForeignBytes == [i \in 1..2 * SizeofHeader |-> IF i \in 14..16 THEN 0 ELSE 1]

InitForeign ==
    /\ heap \in UninitBytes
    /\ doc = el_doc_new(heap)
    /\ disk = [p \in Paths |-> IF p = OtherPath THEN File(ForeignBytes) ELSE NoFile]
    /\ row = NoRow
    /\ el_error_msg_buf = NoMsg
    /\ last = Called("doc_new", EL_OK, 0)
    /\ appended = Untouched
    /\ steps = 0

NextForeign ==
    \/ Next
    \/ Tick /\ DocRead(OtherPath)

SpecForeign == InitForeign /\ [][NextForeign]_vars

-----------------------------------------------------------------------------
(* Properties of the library, each under the specification that exercises  *)
(* it.                                                                     *)

\* C1: after every add_row that returned OK, whatever calls came before it,
\* the size of the file is header_len + row_len * row_count.
C1_SizeAfterAdd ==
    (last.op = "row_add" /\ last.ret = EL_OK)
        => Len(disk[doc.fname].data)
               = doc.header.header_len + doc.header.row_len * doc.header.row_count

C3_UpdateInPlace ==
    [][ (last'.op = "row_update" /\ last'.ret = EL_OK /\ row.index < doc.header.row_count)
            => /\ Len(disk'[doc.fname].data) = Len(disk[doc.fname].data)
               /\ doc'.header = doc.header
               /\ doc'.field_defs = doc.field_defs
               /\ \A i \in 1..Len(disk[doc.fname].data) :
                     (i <= RowOffset(doc.header, row.index)
                        \/ i > RowOffset(doc.header, row.index) + doc.header.row_len)
                         => disk'[doc.fname].data[i] = disk[doc.fname].data[i]
               /\ \E res \in {el_row_get(World(doc', disk', el_error_msg_buf', NoRow),
                                         row.index, heap)} :
                     /\ res.row.valid
                     /\ RowValues(res.doc, res.row) = RowValues(doc, row) ]_vars

\* C4: get_row with an index >= row_count returns null and sets the
\* out-of-range message; it opens and reads nothing, so the handle (its
\* stream, header and table) and the disk are as before.
C4_OutOfRange ==
    [][ (last'.op = "row_get" /\ last'.idx >= doc.header.row_count)
            => /\ last'.ret = EL_ERROR_FILE
               /\ row' = NoRow
               /\ doc' = doc
               /\ disk' = disk
               /\ el_error_msg_buf'.set
               /\ el_error_msg_buf'.kind = "index_out_of_range" ]_vars

C4_Witness ==
    /\ last.op = "row_get"
    /\ last.ret = EL_ERROR_FILE
    /\ doc.header.row_count > 0
    /\ last.idx >= doc.header.row_count
    /\ disk[doc.fname].exists
    /\ ~doc.fh.open
    /\ row = NoRow
    /\ el_error_msg_buf.kind = "index_out_of_range"

\* C5: open_file on a handle that is not Closed returns FILE_ERROR and
\* leaves the handle (stream, stored name, stored mode) and the disk as they
\* were, whatever name and mode are passed.
C5_OpenWhileOpen ==
    [][ (last'.op = "doc_fopen" /\ doc.fh.open)
            => /\ last'.ret = EL_ERROR_FILE
               /\ doc' = doc
               /\ disk' = disk ]_vars

C5_Witness ==
    /\ last = Called("doc_fopen", EL_ERROR_FILE, 1)
    /\ doc.fh.open
    /\ doc.fname = DocPath
    /\ doc.fmode = "wb"
    /\ el_error_msg_buf.kind = "already_open"

\* C6: read_document of an existing file whose first three bytes are not
\* "ELD" returns FILE_ERROR.
C6_MagicChecked ==
    ( /\ last.op = "doc_read"
      /\ doc.fname # NULL
      /\ disk[doc.fname].exists
      /\ FRead(disk[doc.fname].data, 0, 3) # <<69, 76, 68>> )
        => last.ret = EL_ERROR_FILE

\* C7: get_row(i) with i < row_count on a file that ends inside row i
\* returns null with the message that names the cell and the row; it never
\* returns a partially filled row.
C7_ShortRow ==
    ( /\ last.op = "row_get"
      /\ last.idx < doc.header.row_count
      /\ disk[doc.fname].exists
      /\ Len(disk[doc.fname].data) > RowOffset(doc.header, last.idx)
      /\ Len(disk[doc.fname].data) < RowOffset(doc.header, last.idx) + doc.header.row_len )
        => /\ last.ret = EL_ERROR_FILE
           /\ row = NoRow
           /\ el_error_msg_buf.kind = "eof_cell_row"
           /\ el_error_msg_buf.b = last.idx

\* C8: add_field fails, and changes nothing of the schema, once the
\* document has rows (row_count > 0).
C8_SchemaFrozen ==
    [][ (last'.op = "field_add" /\ doc.header.row_count > 0)
            => /\ last'.ret # EL_OK
               /\ doc'.field_defs = doc.field_defs
               /\ doc'.header = doc.header ]_vars

\* C9: after a save or an add_row that returned OK, read_document of the
\* same path into a fresh handle yields the writer's header_len, row_len,
\* field_desc_len, field_desc_count and row_count and its descriptors (type,
\* size_bytes, name), and get_row on the fresh handle returns what get_row
\* on the writer returns.
C9_FreshHandle ==
    (last.op \in {"doc_save", "row_add"} /\ last.ret = EL_OK) =>
        \A g \in UninitBytes :
            \E fresh \in {el_doc_read(World(el_doc_new(g), disk, NoMsg, NoRow), doc.fname, g)} :
                /\ fresh.ret = EL_OK
                /\ fresh.doc.header.header_len = doc.header.header_len
                /\ fresh.doc.header.row_len = doc.header.row_len
                /\ fresh.doc.header.field_desc_len = doc.header.field_desc_len
                /\ fresh.doc.header.field_desc_count = doc.header.field_desc_count
                /\ fresh.doc.header.row_count = doc.header.row_count
                /\ Len(fresh.doc.field_defs) = Len(doc.field_defs)
                /\ \A k \in 1..Len(doc.field_defs) :
                      /\ fresh.doc.field_defs[k].type = doc.field_defs[k].type
                      /\ fresh.doc.field_defs[k].size_bytes = doc.field_defs[k].size_bytes
                      /\ fresh.doc.field_defs[k].name = doc.field_defs[k].name
                /\ \A i \in 0..MaxRows :
                      \E theirs \in {el_row_get(fresh, i, g)},
                         ours \in {el_row_get(World(doc, disk, el_error_msg_buf, NoRow), i, g)} :
                          /\ theirs.ret = ours.ret
                          /\ theirs.row.valid = ours.row.valid
                          /\ RowValues(theirs.doc, theirs.row) = RowValues(ours.doc, ours.row)

C9_Witness ==
    /\ last.op = "row_add"
    /\ last.ret = EL_OK
    /\ doc.header.field_desc_count = 2
    /\ doc.header.row_count = 2
    /\ Len(disk[doc.fname].data) = RowOffset(doc.header, 2)

\* C10: update_row of the row get_row(i) just returned, unmodified, returns
\* OK and leaves every byte of the file as it was.
C10_GetThenUpdate ==
    [][ (last.op = "row_get" /\ last.ret = EL_OK /\ last'.op = "row_update")
            => /\ last'.ret = EL_OK
               /\ disk' = disk ]_vars

C10_Witness ==
    /\ last.op = "row_update"
    /\ last.ret = EL_OK
    /\ row.from = "get"
    /\ row.cell_count = 2
    /\ doc.header.row_count = 2
    /\ row.index = 0

\* C11: between any two calls, header_len is the size of the header block
\* as it is stored on disk plus field_desc_len * field_desc_count.
C11_HeaderLen ==
    doc.header.header_len
        = Len(HeaderBytes(doc.header))
              + doc.header.field_desc_len * doc.header.field_desc_count

C11_Witness ==
    /\ last.op = "row_update"
    /\ doc.header.field_desc_count = 2
    /\ doc.header.row_count = 1
    /\ doc.header.header_len = 72

\* The sum of size_bytes over a descriptor table, as an integer.
RECURSIVE SumOfSizes(_)
SumOfSizes(defs) ==
    IF defs = <<>> THEN 0 ELSE Head(defs).size_bytes + SumOfSizes(Tail(defs))

\* C12: after any sequence of add_field calls on a new handle, row_len is
\* the sum of size_bytes over the descriptors of the table.
C12_RowLenIsSum == doc.header.row_len = SumOfSizes(doc.field_defs)

\* C13: el_field_def_new gives size_bytes = base_size(type) * L for INT and
\* FLOAT and L + 1 for STRING, for every declared length L of 16 bits.
C13_SizeBytes ==
    last.op = "field_add" =>
        doc.field_defs[Len(doc.field_defs)].size_bytes
            = IF last.type = EL_FIELD_STRING
              THEN last.idx + 1
              ELSE el_util_sizeof(last.type) * last.idx

\* C14: the descriptor's name is the first min(len(name), 19) bytes of the
\* name passed, then NULs: byte 20 of the name field is always NUL.
C14_NameTruncated ==
    last.op = "field_add" =>
        \A i \in 1..Len(doc.field_defs[Len(doc.field_defs)].name) :
            doc.field_defs[Len(doc.field_defs)].name[i]
                = IF i <= Min(Len(last.name), 19) THEN last.name[i] ELSE 0

\* C15: the row new_row hands back has cell_count equal to the handle's
\* field_desc_count and index equal to its row_count, every STRING cell is a
\* buffer of size_bytes zero bytes, and every INT or FLOAT cell is zero.
C15_NewRowZeroed ==
    last.op = "row_new"
        => /\ row.cell_count = doc.header.field_desc_count
           /\ row.index = doc.header.row_count
           /\ \A k \in 1..row.cell_count :
                 IF doc.field_defs[k].type = EL_FIELD_STRING
                 THEN row.cells[k] = Fill(doc.field_defs[k].size_bytes, 0)
                 ELSE \A i \in 1..Len(row.cells[k]) : row.cells[k][i] = 0

\* C16: after every add_row or update_row that returned OK, whatever the
\* caller put in the buffers, the last of the size_bytes bytes the file holds
\* for each STRING cell of the row written is NUL.
C16_StringEndsWithNul ==
    (last.op \in {"row_add", "row_update"} /\ last.ret = EL_OK)
        => \A k \in 1..row.cell_count :
              (doc.field_defs[k].type = EL_FIELD_STRING /\ doc.field_defs[k].size_bytes > 0)
                  => disk[doc.fname].data[
                         (IF last.op = "row_add"
                          THEN Len(disk[doc.fname].data) - Len(RowBytes(doc.field_defs, row))
                          ELSE RowOffset(doc.header, row.index))
                         + RowLenLoop(doc.field_defs, k)] = 0

\* C17: read_document, save_document, add_row, update_row and get_row,
\* called on a Closed handle, return with the handle Closed, with OK or with
\* an error.
C17_ClosedOnReturn ==
    [][(~doc.fh.open
          /\ last'.op \in {"doc_read", "doc_save", "row_add", "row_update", "row_get"})
         => ~doc'.fh.open]_vars

\* What a complete add_row does to its stream when el_doc_save opened the
\* file in mode m.
AddSequence(m) ==
    <<Opened(m), Wrote("header"), Closed, Opened("a+b"), Wrote("row"), Closed>>

IsPrefix(s, t) == Len(s) <= Len(t) /\ s = SubSeq(t, 1, Len(s))

CompleteRows(d, dk) ==
    (Len(dk[d.fname].data) - d.header.header_len) \div d.header.row_len

\* C19: after an add_row that returned an error the in-memory row_count is
\* one greater than before the call, and when the header was written before
\* the failure (the handle has at least one descriptor) the row_count on
\* disk is greater than the number of complete rows the file holds.
C19_NoRollback ==
    [][(last'.op = "row_add" /\ last'.ret > EL_OK)
         => \A k \in {0} \cup FailPoints :
               \A res \in {el_doc_row_add([Here EXCEPT !.failAt = k])} :
                  (res.doc = doc' /\ res.disk = disk' /\ res.ret = last'.ret)
                      => /\ doc'.header.row_count = doc.header.row_count + 1
                         /\ (res.log # <<>> /\ doc.header.row_len > 0)
                               => HeaderFromBytes(disk'[doc'.fname].data).row_count
                                      > CompleteRows(doc', disk')]_vars

\* The header block of the file is the one the handle holds.
HeaderOnDisk(d, dk) ==
    /\ dk[d.fname].exists
    /\ Len(dk[d.fname].data) >= d.header.header_len
    /\ SubSeq(dk[d.fname].data, 1, d.header.header_len)
           = HeaderBytes(d.header) \o FieldDefsBytes(d.field_defs)

C21_SaveKeepsRows ==
    [][(last'.op = "doc_save" /\ last'.ret = EL_OK
          /\ doc.fname = DocPath
          /\ HeaderOnDisk(doc, disk)
          /\ Len(disk[DocPath].data) > doc.header.header_len)
         => /\ Len(disk'[DocPath].data) = Len(disk[DocPath].data)
            /\ SubSeq(disk'[DocPath].data, doc.header.header_len + 1,
                      Len(disk[DocPath].data))
                  = SubSeq(disk[DocPath].data, doc.header.header_len + 1,
                           Len(disk[DocPath].data))]_vars

\* C22: update_row, with any row its caller holds, writes no byte at or
\* behind header_len + row_len * row_count and never changes the size of the
\* file.
C22_UpdateInsideRows ==
    [][(last'.op = "row_update" /\ disk[doc.fname].exists)
         => /\ Len(disk'[doc.fname].data) = Len(disk[doc.fname].data)
            /\ \A i \in (RowOffset(doc.header, doc.header.row_count) + 1)
                           ..Len(disk'[doc.fname].data) :
                  disk'[doc.fname].data[i] = disk[doc.fname].data[i]]_vars

\* What the library call of the step may have been: the results of the calls
\* of last'.op that lead from this state to the next.
CallsOfStep ==
    { res \in (CASE last'.op = "doc_save" -> {el_doc_save(Here, f) : f \in {DocPath, NULL}}
                 [] last'.op = "doc_read" -> {el_doc_read(Here, DocPath, heap)}
                 [] last'.op = "row_add" -> {el_doc_row_add(Here)}
                 [] last'.op = "row_update" -> {el_doc_row_update(Here)}
                 [] last'.op = "row_get" -> {el_row_get(Here, last'.idx, heap)}
                 [] OTHER -> {}) :
        res.doc = doc' /\ res.disk = disk' /\ res.ret = last'.ret }

C24_SeekExact ==
    last.op = "row_seek"
        => last.offset = ExactOffset(last.header_len, last.row_len, last.index)

\* C25: every add_field that returns OK, with 0 to 255 descriptors already
\* present, raises field_desc_count by one, stores the descriptor given as
\* the last entry of the table and leaves the earlier entries as they were.
C25_FieldAppended ==
    [][(last'.op = "field_add" /\ last'.ret = EL_OK)
         => /\ doc'.header.field_desc_count = doc.header.field_desc_count + 1
            /\ Len(doc'.field_defs) = Len(doc.field_defs) + 1
            /\ doc'.field_defs[Len(doc'.field_defs)]
                   = el_field_def_new(last'.type, last'.name, last'.idx, heap)
            /\ SubSeq(doc'.field_defs, 1, Len(doc.field_defs)) = doc.field_defs]_vars

\* C26: an operation that returns an error (or NULL from get_row) leaves its
\* message in the error sink, and an operation that returns OK leaves the
\* sink as it was.
C26_SinkFollowsErrors ==
    [][last'.op \in {"doc_read", "doc_save", "field_add", "row_new",
                     "row_add", "row_update", "row_get"}
         => IF last'.ret = EL_OK
            THEN el_error_msg_buf' = el_error_msg_buf
            ELSE el_error_msg_buf'.set]_vars

====
